---- MODULE Spec2Model ----
(***************************************************************************)
(* Keeper Commander, keepercommander/commands/remote.py: the `remote`      *)
(* command.  The model covers the token construction (get_auth_token), the *)
(* websocket drain (get_ws_response) and the dispatch of                   *)
(* RemoteCommand.execute over the connection table params.ws_connections.  *)
(* Four specifications share the variables: Spec (the commands, one after  *)
(* another), SpecDrain (the drain over every frame), SpecToken (the token   *)
(* construction over the records) and SpecConc (connect and disconnect run  *)
(* by two threads at once).                                                 *)
(***************************************************************************)
EXTENDS Integers, Sequences, FiniteSets, TLC

\* Python's None, for the string-valued options and results.
None == "None"

\* remote.py:40
JWT_EXP_DELTA == 7200

\* Bounds of the model.
\* Transport connections a run may open (handles 1..MaxHandles).
MaxHandles == 2
\* Frames the relay delivers within one drain before it falls silent.
MaxFrames == 2

\* The acting users (kwargs user_id or params.user) and the minion ids.
Logins == {"alice", "bob"}
Minions == {"m1"}

(***************************************************************************)
(* Key material and token construction                                     *)
(***************************************************************************)

\* remote.py:32-39, in the dict's insertion order.
JWK_FIELDS ==
    << [k |-> "alg", v |-> "text:alg"],
       [k |-> "api", v |-> "url:api"],
       [k |-> "aud", v |-> "text:aud"],
       [k |-> "iss", v |-> "url:iss"],
       [k |-> "kid", v |-> "text:kid"],
       [k |-> "key", v |-> "keyPair:key"] >>

FieldNames == { JWK_FIELDS[i].v : i \in 1..Len(JWK_FIELDS) }

\* v.startswith('url:') for the values of JWK_FIELDS.
IsUrlKind(v) == v \in {"url:api", "url:iss"}

\* The value a record stores under a field name; the key pair's private key
\* is a PEM text that JWK.from_pem accepts ("pem:ok") or rejects ("pem:bad").
ValueOf(name) == IF name = "keyPair:key" THEN "pem:ok" ELSE "val:" \o name

LoginUrl == "https://relay.example/ws"

Field(name) == [name |-> name, value |-> ValueOf(name)]

\* A credential record: its custom fields in the record's order, its URL.
Rec(fields) == [custom_fields |-> fields, login_url |-> LoginUrl]

EmptyVars == [x \in {} |-> None]

\* The fields taken by position: the i-th field of the record is stored
\* under the i-th key of JWK_FIELDS, whatever its name.
ScanFieldsByPosition(fields, token_vars) ==
    LET n == IF Len(fields) < Len(JWK_FIELDS) THEN Len(fields) ELSE Len(JWK_FIELDS)
        at(k) == CHOOSE i \in 1..n : JWK_FIELDS[i].k = k
    IN [k \in { JWK_FIELDS[i].k : i \in 1..n } |-> fields[at(k)].value] @@ token_vars

\* remote.py:139-142: every custom field whose name is a JWK_FIELDS value
\* is stored under that value's key; a later field overwrites an earlier one.
RECURSIVE ScanFields(_, _)
ScanFields(fields, token_vars) ==
    IF fields = <<>> THEN token_vars
    ELSE LET f == Head(fields)
             hits == { i \in 1..Len(JWK_FIELDS) : JWK_FIELDS[i].v = f.name }
             upd == [k \in { JWK_FIELDS[i].k : i \in hits } |-> f.value]
         IN ScanFields(Tail(fields), upd @@ token_vars)

\* remote.py:143-146: the loop leaves at the first url-kind key it fills
\* (the break), so one key at most receives the record's URL.
UrlFallback(token_vars, login_url) ==
    LET unresolved == { i \in 1..Len(JWK_FIELDS) :
                          IsUrlKind(JWK_FIELDS[i].v) /\ JWK_FIELDS[i].k \notin DOMAIN token_vars }
    IN IF unresolved = {} THEN token_vars
       ELSE LET i == CHOOSE j \in unresolved : \A m \in unresolved : j <= m
            IN (JWK_FIELDS[i].k :> login_url) @@ token_vars

\* The first key of `keys` (in order) that token_vars lacks, or None:
\* the KeyError of a dict comprehension over `keys`.
RECURSIVE FirstMissing(_, _)
FirstMissing(keys, token_vars) ==
    IF keys = <<>> THEN None
    ELSE IF Head(keys) \notin DOMAIN token_vars THEN Head(keys)
    ELSE FirstMissing(Tail(keys), token_vars)

PayloadKeys == <<"exp", "aud", "iss", "kid", "login", "scope">>
HeaderKeys == <<"alg", "kid">>

\* An enterprise id is a number, written as its base-256 digits, most
\* significant first and without leading zeros (0 is <<>>); NoEntId is
\* ent_id=None, the parameter's default.
EntId(digits) == [given |-> TRUE, digits |-> digits]
NoEntId == [given |-> FALSE, digits |-> <<>>]

\* `if ent_id:` - neither None nor 0.
Truthy(ent_id) == ent_id.given /\ ent_id.digits # <<>>

\* int.to_bytes(4, 'big'): the digits padded to four bytes; a number of
\* more than four digits raises OverflowError.
FitsBytes4(digits) == Len(digits) <= 4
ToBytes4(digits) ==
    [i \in 1..4 |-> IF i <= 4 - Len(digits) THEN 0 ELSE digits[i - (4 - Len(digits))]]

\* hashlib.sha256(b).hexdigest(), as an uninterpreted injective digest.
Sha256(bytes) == <<"sha256", bytes>>

\* ' '.join(scopes)
RECURSIVE Join(_)
Join(scopes) ==
    IF scopes = <<>> THEN ""
    ELSE IF Len(scopes) = 1 THEN scopes[1]
    ELSE scopes[1] \o " " \o Join(Tail(scopes))

\* The delta argument ignored: every token lives JWT_EXP_DELTA seconds.
ExpDefault(now, exp_delta) == now + JWT_EXP_DELTA

\* remote.py:148, int(time()) + exp_delta.
Exp(now, exp_delta) == now + exp_delta

TokenError(e, tv) ==
    [error |-> e, api |-> None, headers |-> EmptyVars, payload |-> EmptyVars, token_vars |-> tv]

\* remote.py:134-166.  ent_id is NoEntId or an id; public_jwk is a flag
\* (the exported key itself is not modelled); now is int(time()).
get_auth_token(record, login, scopes, ent_id, public_jwk, exp_delta, now) ==
    LET tv0 == ("login" :> login) @@ ("scope" :> Join(scopes))
        tv1 == ScanFields(record.custom_fields, tv0)
        tv2 == UrlFallback(tv1, record.login_url)
        tv3 == ("exp" :> Exp(now, exp_delta)) @@ tv2
        pmiss == FirstMissing(PayloadKeys, tv3)
        hmiss == FirstMissing(HeaderKeys, tv3)
        payload0 == [k \in { PayloadKeys[i] : i \in 1..Len(PayloadKeys) } |-> tv3[k]]
        fits == FitsBytes4(ent_id.digits)
        payload1 == IF Truthy(ent_id) /\ fits
                    THEN ("ent-id" :> Sha256(ToBytes4(ent_id.digits))) @@ payload0
                    ELSE payload0
        payload2 == IF public_jwk THEN ("public-jwk" :> "jwk:public") @@ payload1
                    ELSE payload1
        headers == [k \in { HeaderKeys[i] : i \in 1..Len(HeaderKeys) } |-> tv3[k]]
    IN IF pmiss # None THEN TokenError("KeyError:" \o pmiss, tv3)
       ELSE IF Truthy(ent_id) /\ ~fits THEN TokenError("OverflowError", tv3)
       ELSE IF hmiss # None THEN TokenError("KeyError:" \o hmiss, tv3)
       ELSE IF "key" \notin DOMAIN tv3 THEN TokenError("KeyError:key", tv3)
       ELSE IF tv3["key"] # "pem:ok" THEN TokenError("ValueError:pem", tv3)
       ELSE [error |-> None, api |-> tv3["api"], headers |-> headers,
             payload |-> payload2, token_vars |-> tv3]

NoToken == TokenError("unissued", EmptyVars)

\* The exception of get_auth_token swallowed: the caller goes on.
TokenFailedNever(tok) == FALSE

\* remote.py:272, 307, 371, 384: an exception raised in get_auth_token
\* leaves execute at the call.
TokenFailed(tok) == tok.error # None

(***************************************************************************)
(* Inbound frames and their rendering                                      *)
(***************************************************************************)

\* A frame is the text ws.recv() returns, by what json.loads makes of it:
\* "nonjson" fails to parse; "null", "emptymap", "list", "number", "string"
\* parse to a value that is not a non-empty dict; "map" is a non-empty dict
\* with the keys `keys` ("extra" stands for any key other than the four the
\* drain knows).  msg is the kind of the value under "message": "text" a
\* truthy value without a true rotate_log, "falsy" an empty one, "rotate" a
\* dict with rotate_log true.
FrameKeys == {"message", "members", "command", "from", "extra"}
MsgKinds == {"text", "falsy", "rotate"}

Frame(kind, keys, msg) == [kind |-> kind, keys |-> keys, msg |-> msg]

InvalidKinds == {"nonjson", "null", "emptymap", "list", "number", "string"}

MapFrames ==
    { Frame("map", ks, m) : ks \in (SUBSET FrameKeys) \ {{}}, m \in MsgKinds \cup {"absent"} }

Frames ==
    { Frame(k, {}, "absent") : k \in InvalidKinds }
    \cup { f \in MapFrames : (f.msg = "absent") <=> ("message" \notin f.keys) }

NoFrame == Frame("none", {}, "absent")

\* The local resp_dict before its first assignment.
Unbound == [kind |-> "unbound", keys |-> {}]

Line(tag, who, keys) == [tag |-> tag, who |-> who, keys |-> keys]

\* remote.py:202-215: the lines of the rendering of a non-rotation frame,
\* and the keys left in resp_dict when they are built.
RenderLines(f) ==
    LET truthy == f.msg = "text"
        rest == (f.keys \ {"message", "members", "command"})
                \ (IF truthy THEN {"from"} ELSE {})
    IN (IF "members" \in f.keys THEN << Line("members", "", {}) >> ELSE <<>>)
       \o (IF "command" \in f.keys THEN << Line("command", "", {}) >> ELSE <<>>)
       \o (IF truthy
           THEN << Line("message", IF "from" \in f.keys THEN "from" ELSE "anonymous", {}) >>
           ELSE <<>>)
       \o (IF rest # {} THEN << Line("json", "", rest) >> ELSE <<>>)

\* resp_dict after the pops of remote.py:197-212.
AfterPops(f) ==
    IF f.msg = "rotate" THEN f.keys \ {"message"}
    ELSE (f.keys \ {"message", "members", "command"})
         \ (IF f.msg = "text" THEN {"from"} ELSE {})

\* response = None for every invalid value: the loop ends on each.
InvalidResponseStops(kind) == "None"

\* remote.py:221, response = resp_dict: None for JSON null, and a value
\* that is not None for any other parsed value.
InvalidResponse(kind) == IF kind = "null" THEN "None" ELSE "resp_dict"

Step(response, resp_dict, emission, lines, err) ==
    [response |-> response, resp_dict |-> resp_dict, emission |-> emission,
     lines |-> lines, error |-> err]

\* remote.py:188-221: one pass of the loop body for a frame that recv
\* returned.  response is "None" (the loop ends), or names the non-None
\* value the loop goes on with.  emission is what the pass put out:
\* "rendering" (print), "warning" (logging.warning) or "none".
ProcessFrame(f, resp_dict, print_msg) ==
    IF f.kind = "nonjson"
    THEN \* json.loads raised; the warning formats resp_dict
         IF resp_dict = Unbound
         THEN Step("", resp_dict, "none", <<>>, "UnboundLocalError")
         ELSE Step("resp_json", resp_dict, "warning", <<>>, None)
    ELSE IF f.kind = "map"
    THEN LET rd == [kind |-> "map", keys |-> AfterPops(f)]
         IN IF f.msg = "rotate"
            THEN \* response = True; '\n'.join(True) raises
                 IF print_msg
                 THEN Step("rotate_log", rd, "none", <<>>, "TypeError")
                 ELSE Step("rotate_log", rd, "none", <<>>, None)
            ELSE Step("list", rd, IF print_msg THEN "rendering" ELSE "none",
                      RenderLines(f), None)
    ELSE \* a parsed value that is not a non-empty dict
         Step(InvalidResponse(f.kind),
              [kind |-> f.kind, keys |-> {}], "warning", <<>>, None)


(***************************************************************************)
(* The inputs of one `remote` invocation                                   *)
(***************************************************************************)

\* The root key records a --root-key path may resolve to: a record with
\* every field, one with neither url field, one without url:iss, one
\* without text:alg, and one whose private key is no PEM text.
AllFields == [i \in 1..Len(JWK_FIELDS) |-> Field(JWK_FIELDS[i].v)]

RootKeys ==
    << Rec(AllFields),
       Rec(SelectSeq(AllFields, LAMBDA f : ~IsUrlKind(f.name))),
       Rec(SelectSeq(AllFields, LAMBDA f : f.name # "url:iss")),
       Rec(SelectSeq(AllFields, LAMBDA f : f.name # "text:alg")),
       Rec([i \in 1..Len(AllFields) |->
              IF AllFields[i].name = "keyPair:key"
              THEN [name |-> "keyPair:key", value |-> "pem:bad"]
              ELSE AllFields[i]]) >>

\* The token lists of the `command` argument.
Commands ==
    { <<>>,
      <<"enterprise", "add">>, <<"enterprise", "check">>,
      <<"minion">>, <<"minion", "add">>, <<"minion", "cmd">>,
      <<"minion", "cmd", "exit">>, <<"minion", "cmd", "ls">>,
      <<"minion", "exit">>, <<"minion", "ping">>,
      <<"user", "add">>, <<"user", "check">>, <<"user", "connect">>,
      <<"user", "disconnect">>, <<"user", "list">>, <<"user", "list", "minion">>,
      <<"user", "receive">>, <<"user", "connectSocket">> }

ExpDeltas == {JWT_EXP_DELTA, 60}

\* int(time()) at issuance.
Clock == {1000}

\* params.license.get('enterprise_id')
EnterpriseIds == {EntId(<<7>>)}

\* remote.py:262-263
RemoteObj(c) == c[1]
RemoteAction(c) == IF Len(c) > 1 THEN c[2] ELSE None

\* kwargs of execute, after the lookups of remote.py:229-260: v3 is
\* record_types_enabled, folder whether --folder resolved to a folder,
\* root_key the index in RootKeys of the record --root-key resolved to
\* (0: none), user_login is kwargs user_id or params.user.
Kw(v3, c, folder, rk, login, minion, exp) ==
    [v3 |-> v3, command |-> c, folder |-> folder, root_key |-> rk,
     user_login |-> login, minion_id |-> minion, exp_delta |-> exp]

\* Which options a command's branch of execute looks at.
UsesRootKey(c) ==
    /\ Len(c) > 0
    /\ \/ RemoteObj(c) = "enterprise"
       \/ c = <<"minion", "add">>
       \/ RemoteObj(c) = "user" /\ RemoteAction(c) \in {"add", "check", "connect"}
UsesFolder(c) == c = <<"minion", "add">>
UsesMinion(c) ==
    /\ Len(c) > 0
    /\ \/ RemoteObj(c) = "minion"
       \/ RemoteObj(c) = "user" /\ RemoteAction(c) \in {"connect", "connectSocket"}
UsesLogin(c) == Len(c) > 0 /\ c # <<"minion", "add">> /\ c # <<"minion">>

\* The invocations: every option a branch looks at ranges over its values,
\* the others are left at their defaults.
Kwargs ==
    { kw \in [v3 : BOOLEAN, command : Commands, folder : BOOLEAN,
              root_key : 0..Len(RootKeys), user_login : Logins,
              minion_id : Minions \cup {None}, exp_delta : ExpDeltas] :
        /\ ~kw.v3 => kw.command = <<"user", "connect">>
        /\ (~kw.v3 \/ ~UsesRootKey(kw.command)) => kw.root_key = 0 /\ kw.exp_delta = JWT_EXP_DELTA
        /\ (~kw.v3 \/ ~UsesFolder(kw.command)) => ~kw.folder
        /\ (~kw.v3 \/ ~UsesMinion(kw.command)) => kw.minion_id = None
        /\ (~kw.v3 \/ ~UsesLogin(kw.command)) => kw.user_login = "alice" }

NoCommand == Kw(FALSE, <<>>, FALSE, 0, "alice", None, JWT_EXP_DELTA)

\* Outcomes of the collaborators: an HTTP call answers 200, another status,
\* or fails with an exception.
HttpOutcomes == {"200", "403", "error"}

\* remote.py:326-328, 407-409 and 350-358: the envelopes sent.
Envelope(action, type, to, message, role) ==
    [action |-> action, type |-> type, to |-> to, message |-> message, role |-> role]
\* The envelope without its type.
SendEnvelopeUntyped(to, message) == Envelope("send", None, to, message, None)

SendEnvelope(to, message) == Envelope("send", "command", to, message, None)
ListEnvelope(c) == Envelope("list", None, None, <<>>, IF Len(c) > 2 THEN c[3] ELSE None)
ConnectSocketEnvelope(to) == Envelope("connectSocket", None, to, <<>>, None)

\* remote.py:322
CmdTokens(c) == IF RemoteAction(c) = "cmd" THEN SubSeq(c, 3, Len(c)) ELSE Tail(c)

\* The session branch opened to connectSocket as well.
SessionActionsWithConnectSocket == {"disconnect", "list", "receive", "connectSocket"}

\* remote.py:338: the actions of the session branch of `user`.
SessionActions == {"disconnect", "list", "receive"}

(***************************************************************************)
(* State                                                                   *)
(***************************************************************************)
VARIABLES
    ws_connections, \* params.ws_connections: login -> handle, 0 for no entry
    nconn,          \* transport connections opened so far (the last handle)
    closed,         \* handles the client closed
    broken,         \* handles on which a recv or a send failed
    pc,             \* "idle" (at the prompt), "drain" (in get_ws_response),
                    \* "drained" (it returned), "done" (execute is over)
    kwargs,         \* the invocation running, or the last one
    status,         \* "none", "running", "returned", "raised"
    error,          \* the exception that left execute, or None
    warnings,       \* logging.warning calls of this invocation
    http,           \* HTTP calls of this invocation
    connects,       \* ws.connect calls of this invocation
    sent,           \* envelopes given to ws.send in this invocation
    records,        \* RecordAddCommand calls of this invocation
    auth,           \* the result of get_auth_token in this invocation
    drains,         \* get_ws_response calls of this invocation
    reads,          \* ws.recv calls of the current drain
    received,       \* frames ws.recv returned in the current drain
    emitted,        \* what the current drain put out, in order
    resp_json,      \* the last frame received
    resp_dict,      \* the local resp_dict
    response,       \* the local response
    printed,        \* the lines of the last rendering printed
    record,         \* token construction alone: the record
    tkargs,         \* token construction alone: the other arguments
    tk,             \* token construction alone: the result
    threads         \* concurrent invocations alone: each thread's position

regVars == <<ws_connections, nconn, closed, broken>>
cmdVars == <<kwargs, status, error, warnings, http, connects, sent, records, auth>>
drainVars == <<drains, reads, received, emitted, resp_json, resp_dict, response, printed>>
tokVars == <<record, tkargs, tk>>
vars == <<regVars, pc, cmdVars, drainVars, tokVars, threads>>

TokenArgs(login, scopes, ent_id, public_jwk, exp_delta, now) ==
    [login |-> login, scopes |-> scopes, ent_id |-> ent_id, public_jwk |-> public_jwk,
     exp_delta |-> exp_delta, now |-> now]

\* get_ws_response, remote.py:177: the locals on entry.
LoopEntry ==
    /\ reads' = 0
    /\ received' = 0
    /\ emitted' = <<>>
    /\ resp_json' = NoFrame
    /\ resp_dict' = Unbound
    /\ response' = ""
    /\ printed' = <<>>

Effects(kw, w, h, c, s, r, tok) ==
    /\ kwargs' = kw
    /\ warnings' = w
    /\ http' = h
    /\ connects' = c
    /\ sent' = s
    /\ records' = r
    /\ auth' = tok

\* execute returns.
Return(kw, w, h, c, s, r, tok) ==
    /\ pc' = "done"
    /\ status' = "returned"
    /\ error' = None
    /\ Effects(kw, w, h, c, s, r, tok)
    /\ drains' = 0
    /\ LoopEntry

\* An exception leaves execute.
Raise(kw, e, w, h, c, s, r, tok) ==
    /\ pc' = "done"
    /\ status' = "raised"
    /\ error' = e
    /\ Effects(kw, w, h, c, s, r, tok)
    /\ drains' = 0
    /\ LoopEntry

\* execute calls get_ws_response for the first time.
Drain(kw, w, h, c, s, r, tok) ==
    /\ pc' = "drain"
    /\ status' = "running"
    /\ error' = None
    /\ Effects(kw, w, h, c, s, r, tok)
    /\ drains' = 1
    /\ LoopEntry

\* Invocations of execute running at once in one process, each on a thread
\* of its own with its own locals.
Threads == {"t1", "t2"}

\* A thread's locals: the action it runs, user_login, and ws.
Thread(pos, act, login, ws, res) ==
    [pc |-> pos, action |-> act, login |-> login, ws |-> ws, result |-> res]

NoThreads == [t \in Threads |-> Thread("idle", None, None, 0, None)]

Init ==
    /\ ws_connections = [l \in Logins |-> 0]
    /\ nconn = 0
    /\ closed = {}
    /\ broken = {}
    /\ pc = "idle"
    /\ kwargs = NoCommand
    /\ status = "none"
    /\ error = None
    /\ warnings = {}
    /\ http = <<>>
    /\ connects = 0
    /\ sent = <<>>
    /\ records = <<>>
    /\ auth = NoToken
    /\ drains = 0
    /\ reads = 0
    /\ received = 0
    /\ emitted = <<>>
    /\ resp_json = NoFrame
    /\ resp_dict = Unbound
    /\ response = ""
    /\ printed = <<>>
    /\ record = RootKeys[1]
    /\ tkargs = TokenArgs("alice", <<"user">>, NoEntId, FALSE, JWT_EXP_DELTA, 1000)
    /\ tk = NoToken
    /\ threads = NoThreads

\* remote.py:229-263: the invocation reaches the dispatch on remote_obj.
Dispatched(kw, obj) ==
    /\ kw.v3
    /\ Len(kw.command) > 0
    /\ RemoteObj(kw.command) = obj

\* The test on the session dropped: the branch is taken without one.
HasSessionAlways(ws) == TRUE

\* remote.py:325 and 341, `if ws:` on ws_connections.get(user_login).
HasSession(ws) == ws # 0

\* The test on the existing session dropped: connect always opens.
NoSessionAlways(ws) == TRUE

\* remote.py:399, `if ws is None:`.
NoSession(ws) == ws = 0

\* The connection closed through get() instead of pop(): the entry stays.
PopKeeps(conns, login) == conns

\* remote.py:343, ws_connections.pop(user_login).
Pop(conns, login) == [conns EXCEPT ![login] = 0]

\* remote.py:403-404, ws_connections[user_login] = ws.
Register(conns, login, ws) == [conns EXCEPT ![login] = ws]

(***************************************************************************)
(* RemoteCommand.execute, up to its first drain                            *)
(***************************************************************************)

\* remote.py:229-238: the two early returns.
ExecEarly ==
    /\ pc = "idle"
    /\ \E kw \in Kwargs :
         /\ ~kw.v3 \/ Len(kw.command) = 0
         /\ Return(kw, IF ~kw.v3 THEN {"record types needed"} ELSE {"specify a subcommand"},
                   <<>>, 0, <<>>, <<>>, NoToken)
    /\ UNCHANGED <<regVars, tokVars, threads>>

\* remote.py:265-289
ExecEnterprise ==
    /\ pc = "idle"
    /\ \E kw \in Kwargs, now \in Clock, hs \in HttpOutcomes :
         /\ Dispatched(kw, "enterprise")
         /\ LET act == RemoteAction(kw.command)
                tok == get_auth_token(RootKeys[kw.root_key], kw.user_login, <<"admin">>,
                                      NoEntId, FALSE, JWT_EXP_DELTA, now)
            IN IF kw.root_key = 0
               THEN Return(kw, {"root-key required"}, <<>>, 0, <<>>, <<>>, NoToken)
               ELSE IF TokenFailed(tok)
               THEN Raise(kw, tok.error, {}, <<>>, 0, <<>>, <<>>, tok)
               ELSE IF act = "add"
               THEN IF hs = "error"
                    THEN Raise(kw, "RequestError", {}, <<"PUT">>, 0, <<>>, <<>>, tok)
                    ELSE Return(kw, {}, <<"PUT">>, 0, <<>>, <<>>, tok)
               ELSE IF act = "check"
               THEN IF hs = "error"
                    THEN Raise(kw, "RequestError", {}, <<"GET">>, 0, <<>>, <<>>, tok)
                    ELSE Return(kw, IF hs = "200" THEN {} ELSE {"check failed"},
                                <<"GET">>, 0, <<>>, <<>>, tok)
               ELSE Return(kw, {}, <<>>, 0, <<>>, <<>>, tok)
    /\ UNCHANGED <<regVars, tokVars, threads>>

\* The record written without the token it was issued for.
MinionRecordNoToken(kw, tok) ==
    [folder |-> "remote_folder", title |-> kw.minion_id, api |-> tok.api,
     token |-> EmptyVars]

\* remote.py:312-318: the remote-minion record given to RecordAddCommand;
\* its secret field 'JWT token' holds the token just issued.
MinionRecord(kw, tok) ==
    [folder |-> "remote_folder", title |-> kw.minion_id, api |-> tok.api,
     token |-> tok.payload]

\* remote.py:291-319: `minion add`, and the minion id every minion action needs.
ExecMinionAdd ==
    /\ pc = "idle"
    /\ \E kw \in Kwargs, now \in Clock, ent_id \in EnterpriseIds, created \in BOOLEAN :
         /\ Dispatched(kw, "minion")
         /\ RemoteAction(kw.command) \notin {"cmd", "exit", "ping"}
         /\ LET tok == get_auth_token(RootKeys[kw.root_key], kw.minion_id, <<"minion">>,
                                      ent_id, FALSE, kw.exp_delta, now)
                data == MinionRecord(kw, tok)
            IN IF kw.minion_id = None
               THEN Return(kw, {"minion-id required"}, <<>>, 0, <<>>, <<>>, NoToken)
               ELSE IF RemoteAction(kw.command) # "add"
               THEN Return(kw, {}, <<>>, 0, <<>>, <<>>, NoToken)
               ELSE IF ~kw.folder
               THEN Return(kw, {"folder required"}, <<>>, 0, <<>>, <<>>, NoToken)
               ELSE IF kw.root_key = 0
               THEN Return(kw, {"root-key required"}, <<>>, 0, <<>>, <<>>, NoToken)
               ELSE IF TokenFailed(tok)
               THEN Raise(kw, tok.error, {}, <<>>, 0, <<>>, <<>>, tok)
               ELSE IF created
               THEN Return(kw, {}, <<>>, 0, <<>>, <<data>>, tok)
               ELSE Raise(kw, "RecordAddError", {}, <<>>, 0, <<>>, <<data>>, tok)
    /\ UNCHANGED <<regVars, tokVars, threads>>

\* remote.py:291-295 and 321-333: `minion cmd`, `minion exit`, `minion ping`
\* up to the first drain.
ExecMinionCmd ==
    /\ pc = "idle"
    /\ \E kw \in Kwargs, sendOk \in BOOLEAN :
         /\ Dispatched(kw, "minion")
         /\ RemoteAction(kw.command) \in {"cmd", "exit", "ping"}
         /\ LET cmd == CmdTokens(kw.command)
                ws == ws_connections[kw.user_login]
                env == SendEnvelope(kw.minion_id, cmd)
            IN IF kw.minion_id = None
               THEN /\ Return(kw, {"minion-id required"}, <<>>, 0, <<>>, <<>>, NoToken)
                    /\ UNCHANGED broken
               ELSE IF HasSession(ws)
               THEN IF sendOk
                    THEN /\ Drain(kw, {}, <<>>, 0, <<env>>, <<>>, NoToken)
                         /\ UNCHANGED broken
                    ELSE /\ Raise(kw, "SendError", {}, <<>>, 0, <<env>>, <<>>, NoToken)
                         /\ broken' = broken \cup {ws}
               ELSE /\ Return(kw, {"no connection"}, <<>>, 0, <<>>, <<>>, NoToken)
                    /\ UNCHANGED broken
    /\ UNCHANGED <<ws_connections, nconn, closed, tokVars, threads>>

\* remote.py:335-364: `user disconnect`, `user list`, `user receive`.
ExecUserSession ==
    /\ pc = "idle"
    /\ \E kw \in Kwargs, sendOk \in BOOLEAN :
         /\ Dispatched(kw, "user")
         /\ RemoteAction(kw.command) \in SessionActions
         /\ LET act == RemoteAction(kw.command)
                ws == ws_connections[kw.user_login]
            IN IF HasSession(ws)
               THEN IF act = "disconnect"
                    THEN /\ ws_connections' = Pop(ws_connections, kw.user_login)
                         /\ closed' = closed \cup {ws}
                         /\ Return(kw, {}, <<>>, 0, <<>>, <<>>, NoToken)
                         /\ UNCHANGED broken
                    ELSE IF act = "receive"
                    THEN /\ Drain(kw, {}, <<>>, 0, <<>>, <<>>, NoToken)
                         /\ UNCHANGED <<ws_connections, closed, broken>>
                    ELSE IF act = "list"
                    THEN IF sendOk
                         THEN /\ Drain(kw, {}, <<>>, 0, <<ListEnvelope(kw.command)>>, <<>>, NoToken)
                              /\ UNCHANGED <<ws_connections, closed, broken>>
                         ELSE /\ Raise(kw, "SendError", {}, <<>>, 0,
                                       <<ListEnvelope(kw.command)>>, <<>>, NoToken)
                              /\ broken' = broken \cup {ws}
                              /\ UNCHANGED <<ws_connections, closed>>
                    ELSE IF act = "connectSocket"
                    THEN IF kw.minion_id # None
                         THEN IF sendOk
                              THEN /\ Return(kw, {}, <<>>, 0,
                                             <<ConnectSocketEnvelope(kw.minion_id)>>, <<>>, NoToken)
                                   /\ UNCHANGED <<ws_connections, closed, broken>>
                              ELSE /\ Raise(kw, "SendError", {}, <<>>, 0,
                                            <<ConnectSocketEnvelope(kw.minion_id)>>, <<>>, NoToken)
                                   /\ broken' = broken \cup {ws}
                                   /\ UNCHANGED <<ws_connections, closed>>
                         ELSE /\ Return(kw, {"minion not specified"}, <<>>, 0, <<>>, <<>>, NoToken)
                              /\ UNCHANGED <<ws_connections, closed, broken>>
                    ELSE /\ Return(kw, {}, <<>>, 0, <<>>, <<>>, NoToken)
                         /\ UNCHANGED <<ws_connections, closed, broken>>
               ELSE /\ Return(kw, {"no connection"}, <<>>, 0, <<>>, <<>>, NoToken)
                    /\ UNCHANGED <<ws_connections, closed, broken>>
    /\ UNCHANGED <<nconn, tokVars, threads>>

\* remote.py:366-377: `user add`.
ExecUserAdd ==
    /\ pc = "idle"
    /\ \E kw \in Kwargs, now \in Clock, hs \in HttpOutcomes :
         /\ Dispatched(kw, "user")
         /\ RemoteAction(kw.command) \notin SessionActions
         /\ RemoteAction(kw.command) = "add"
         /\ LET tok == get_auth_token(RootKeys[kw.root_key], kw.user_login, <<"user">>,
                                      NoEntId, FALSE, JWT_EXP_DELTA, now)
            IN IF kw.root_key = 0
               THEN Return(kw, {"root-key required"}, <<>>, 0, <<>>, <<>>, NoToken)
               ELSE IF TokenFailed(tok)
               THEN Raise(kw, tok.error, {}, <<>>, 0, <<>>, <<>>, tok)
               ELSE IF hs = "error"
               THEN Raise(kw, "RequestError", {}, <<"PUT">>, 0, <<>>, <<>>, tok)
               ELSE Return(kw, {}, <<"PUT">>, 0, <<>>, <<>>, tok)
    /\ UNCHANGED <<regVars, tokVars, threads>>

\* remote.py:379-395: `user check`.
ExecUserCheck ==
    /\ pc = "idle"
    /\ \E kw \in Kwargs, now \in Clock, ent_id \in EnterpriseIds, hs \in HttpOutcomes :
         /\ Dispatched(kw, "user")
         /\ RemoteAction(kw.command) \notin SessionActions \cup {"add"}
         /\ RemoteAction(kw.command) = "check"
         /\ LET tok == get_auth_token(RootKeys[kw.root_key], kw.user_login, <<"user">>,
                                      ent_id, TRUE, JWT_EXP_DELTA, now)
            IN IF kw.root_key = 0
               THEN Return(kw, {"root-key required"}, <<>>, 0, <<>>, <<>>, NoToken)
               ELSE IF TokenFailed(tok)
               THEN Raise(kw, tok.error, {}, <<>>, 0, <<>>, <<>>, tok)
               ELSE IF hs = "error"
               THEN Raise(kw, "RequestError", {}, <<"GET">>, 0, <<>>, <<>>, tok)
               ELSE Return(kw, IF hs = "200" THEN {} ELSE {"check failed"},
                           <<"GET">>, 0, <<>>, <<>>, tok)
    /\ UNCHANGED <<regVars, tokVars, threads>>

\* remote.py:379-386 and 396-412: `user connect`, up to the drain of its ping.
ExecUserConnect ==
    /\ pc = "idle"
    /\ \E kw \in Kwargs, now \in Clock, ent_id \in EnterpriseIds,
          connectOk \in BOOLEAN, sendOk \in BOOLEAN :
         /\ Dispatched(kw, "user")
         /\ RemoteAction(kw.command) \notin SessionActions \cup {"add"}
         /\ RemoteAction(kw.command) = "connect"
         /\ LET tok == get_auth_token(RootKeys[kw.root_key], kw.user_login, <<"user">>,
                                      ent_id, TRUE, JWT_EXP_DELTA, now)
                ws == ws_connections[kw.user_login]
                new == nconn + 1
                ping == SendEnvelope(kw.minion_id, <<"ping">>)
            IN IF kw.root_key = 0
               THEN /\ Return(kw, {"root-key required"}, <<>>, 0, <<>>, <<>>, NoToken)
                    /\ UNCHANGED regVars
               ELSE IF TokenFailed(tok)
               THEN /\ Raise(kw, tok.error, {}, <<>>, 0, <<>>, <<>>, tok)
                    /\ UNCHANGED regVars
               ELSE IF NoSession(ws)
               THEN /\ nconn < MaxHandles
                    /\ IF ~connectOk
                       THEN /\ Raise(kw, "ConnectError", {}, <<>>, 1, <<>>, <<>>, tok)
                            /\ UNCHANGED regVars
                       ELSE /\ ws_connections' = Register(ws_connections, kw.user_login, new)
                            /\ nconn' = new
                            /\ UNCHANGED closed
                            /\ IF kw.minion_id # None
                               THEN IF sendOk
                                    THEN /\ Drain(kw, {}, <<>>, 1, <<ping>>, <<>>, tok)
                                         /\ UNCHANGED broken
                                    ELSE /\ Raise(kw, "SendError", {}, <<>>, 1, <<ping>>, <<>>, tok)
                                         /\ broken' = broken \cup {new}
                               ELSE /\ Return(kw, {}, <<>>, 1, <<>>, <<>>, tok)
                                    /\ UNCHANGED broken
               ELSE /\ Return(kw, {"already connected"}, <<>>, 0, <<>>, <<>>, tok)
                    /\ UNCHANGED regVars
    /\ UNCHANGED <<tokVars, threads>>

\* remote.py:265, 291, 335-379: no branch of the dispatch matches.
ExecNoBranch ==
    /\ pc = "idle"
    /\ \E kw \in Kwargs :
         /\ kw.v3
         /\ Len(kw.command) > 0
         /\ \/ RemoteObj(kw.command) \notin {"enterprise", "minion", "user"}
            \/ /\ RemoteObj(kw.command) = "user"
               /\ RemoteAction(kw.command) \notin SessionActions \cup {"add", "check", "connect"}
         /\ Return(kw, {}, <<>>, 0, <<>>, <<>>, NoToken)
    /\ UNCHANGED <<regVars, tokVars, threads>>

(***************************************************************************)
(* get_ws_response: one action per outcome of ws.recv                      *)
(***************************************************************************)

\* The connection the running invocation drains.
Session == ws_connections[kwargs.user_login]

\* The read retried once after a timeout before the loop ends.
RecvTimeoutRetries ==
    /\ pc = "drain"
    /\ reads' = reads + 2
    /\ response' = "None"
    /\ pc' = "drained"
    /\ UNCHANGED <<regVars, cmdVars, tokVars, threads, drains, received, emitted, resp_json,
                   resp_dict, printed>>

\* remote.py:184-186: no frame within the read timeout; the loop ends.
RecvTimeout ==
    /\ pc = "drain"
    /\ reads' = reads + 1
    /\ response' = "None"
    /\ pc' = "drained"
    /\ UNCHANGED <<regVars, cmdVars, tokVars, threads, drains, received, emitted, resp_json,
                   resp_dict, printed>>

\* remote.py:181-183: the connection aborted the read; the loop ends.
RecvAborted ==
    /\ pc = "drain"
    /\ reads' = reads + 1
    /\ response' = "None"
    /\ warnings' = warnings \cup {"connection timed out"}
    /\ broken' = broken \cup {Session}
    /\ pc' = "drained"
    /\ UNCHANGED <<ws_connections, nconn, closed, tokVars, threads, kwargs, status, error, http,
                   connects, sent, records, auth, drains, received, emitted, resp_json,
                   resp_dict, printed>>

\* remote.py:179-186: recv raised an exception neither clause catches
\* (the connection is closed); it leaves get_ws_response and execute.
RecvError ==
    /\ pc = "drain"
    /\ reads' = reads + 1
    /\ broken' = broken \cup {Session}
    /\ status' = "raised"
    /\ error' = "WebSocketError"
    /\ pc' = "done"
    /\ UNCHANGED <<ws_connections, nconn, closed, tokVars, threads, kwargs, warnings, http,
                   connects, sent, records, auth, drains, received, emitted, resp_json,
                   resp_dict, response, printed>>

\* remote.py:180 and 188-221: recv returned the frame f.
FrameStep(f) ==
    LET st == ProcessFrame(f, resp_dict, TRUE)
    IN /\ reads' = reads + 1
       /\ received' = received + 1
       /\ resp_json' = f
       /\ resp_dict' = st.resp_dict
       /\ response' = st.response
       /\ emitted' = IF st.emission = "none" THEN emitted
                     ELSE Append(emitted, [frame |-> received + 1, kind |-> st.emission])
       /\ printed' = IF st.emission = "rendering" THEN st.lines ELSE printed
       /\ warnings' = IF st.emission = "warning"
                      THEN warnings \cup {"invalid response"} ELSE warnings
       /\ IF st.error # None
          THEN /\ pc' = "done"
               /\ status' = "raised"
               /\ error' = st.error
          ELSE /\ pc' = IF st.response = "None" THEN "drained" ELSE "drain"
               /\ UNCHANGED <<status, error>>
       /\ UNCHANGED <<regVars, tokVars, threads, kwargs, http, connects, sent, records, auth, drains>>

\* One frame of each way the loop body can go: a frame that does not parse,
\* JSON null, an empty dict, a text message from a sender, a log rotation.
CoreFrames ==
    { Frame("nonjson", {}, "absent"), Frame("null", {}, "absent"),
      Frame("emptymap", {}, "absent"), Frame("map", {"message", "from"}, "text"),
      Frame("map", {"message"}, "rotate") }

\* A frame arrives while a command drains its session.
RecvFrame ==
    /\ pc = "drain"
    /\ received < MaxFrames
    /\ \E f \in CoreFrames : FrameStep(f)

\* remote.py:330-331, and the return of every other caller of the drain.
Continue ==
    /\ pc = "drained"
    /\ LET cmd == CmdTokens(kwargs.command)
       IN IF RemoteObj(kwargs.command) = "minion" /\ drains = 1
          THEN IF cmd = <<>>
               THEN /\ pc' = "done"
                    /\ status' = "raised"
                    /\ error' = "IndexError"
                    /\ UNCHANGED drainVars
               ELSE IF cmd[1] = "exit"
               THEN /\ pc' = "drain"
                    /\ drains' = 2
                    /\ LoopEntry
                    /\ UNCHANGED <<status, error>>
               ELSE /\ pc' = "done"
                    /\ status' = "returned"
                    /\ UNCHANGED <<error, drainVars>>
          ELSE /\ pc' = "done"
               /\ status' = "returned"
               /\ UNCHANGED <<error, drainVars>>
    /\ UNCHANGED <<regVars, tokVars, threads, kwargs, warnings, http, connects, sent, records, auth>>

\* The shell is back at its prompt: what the invocation left behind is
\* params.ws_connections and the transport's state, nothing else.
Prompt ==
    /\ pc = "done"
    /\ pc' = "idle"
    /\ kwargs' = NoCommand
    /\ status' = "none"
    /\ error' = None
    /\ warnings' = {}
    /\ http' = <<>>
    /\ connects' = 0
    /\ sent' = <<>>
    /\ records' = <<>>
    /\ auth' = NoToken
    /\ drains' = 0
    /\ LoopEntry
    /\ UNCHANGED <<regVars, tokVars, threads>>

Next ==
    \/ ExecEarly
    \/ ExecEnterprise
    \/ ExecMinionAdd
    \/ ExecMinionCmd
    \/ ExecUserSession
    \/ ExecUserAdd
    \/ ExecUserCheck
    \/ ExecUserConnect
    \/ ExecNoBranch
    \/ RecvTimeout
    \/ RecvAborted
    \/ RecvError
    \/ RecvFrame
    \/ Continue
    \/ Prompt

Spec == Init /\ [][Next]_vars

(***************************************************************************)
(* The drain alone, over every frame, on one registered session            *)
(***************************************************************************)

\* alice is connected (after `remote user connect`) and the shell is at its
\* prompt.
InitDrain ==
    /\ ws_connections = [l \in Logins |-> IF l = "alice" THEN 1 ELSE 0]
    /\ nconn = 1
    /\ closed = {}
    /\ broken = {}
    /\ pc = "idle"
    /\ kwargs = NoCommand
    /\ status = "none"
    /\ error = None
    /\ warnings = {}
    /\ http = <<>>
    /\ connects = 0
    /\ sent = <<>>
    /\ records = <<>>
    /\ auth = NoToken
    /\ drains = 0
    /\ reads = 0
    /\ received = 0
    /\ emitted = <<>>
    /\ resp_json = NoFrame
    /\ resp_dict = Unbound
    /\ response = ""
    /\ printed = <<>>
    /\ record = RootKeys[1]
    /\ tkargs = TokenArgs("alice", <<"user">>, NoEntId, FALSE, JWT_EXP_DELTA, 1000)
    /\ tk = NoToken
    /\ threads = NoThreads

\* A frame arrives: any frame.
DrainFrame ==
    /\ pc = "drain"
    /\ received < MaxFrames
    /\ \E f \in Frames : FrameStep(f)

NextDrain ==
    \/ ExecUserSession
    \/ DrainFrame
    \/ RecvTimeout
    \/ RecvAborted
    \/ RecvError
    \/ Continue
    \/ Prompt

SpecDrain == InitDrain /\ [][NextDrain]_vars

(***************************************************************************)
(* Token construction alone, over the records and arguments                *)
(***************************************************************************)

\* A second custom field named text:aud, with a value of its own.
OtherAud == [name |-> "text:aud", value |-> "val:other"]

\* Records that name a field twice: the six fields and OtherAud, the two
\* text:aud fields at any two places among the others.
DupRecords ==
    LET seven == AllFields \o << OtherAud >>
        n == Len(seven)
        arrangements ==
            { g \in [1..n -> 1..n] :
                /\ \A a, b \in 1..n : a # b => g[a] # g[b]
                /\ \A a, b \in 1..n :
                     (a < b /\ seven[g[a]].name # "text:aud" /\ seven[g[b]].name # "text:aud")
                     => g[a] < g[b] }
    IN { Rec([i \in 1..n |-> seven[g[i]]]) : g \in arrangements }

\* The records: every arrangement of distinct JWK field names, and the
\* records that name a field twice.
Records ==
    UNION { { Rec([i \in 1..n |-> Field(g[i])]) :
                g \in { h \in [1..n -> FieldNames] :
                          \A a, b \in 1..n : a # b => h[a] # h[b] } } :
            n \in 0..Len(JWK_FIELDS) }
    \cup DupRecords

TokenInputs ==
    { TokenArgs("alice", <<"user">>, e, FALSE, d, now) :
        e \in {NoEntId, EntId(<<>>), EntId(<<7>>), EntId(<<1, 0, 0, 0, 0>>)}, d \in ExpDeltas, now \in Clock }

InitToken ==
    /\ ws_connections = [l \in Logins |-> 0]
    /\ nconn = 0
    /\ closed = {}
    /\ broken = {}
    /\ pc = "idle"
    /\ kwargs = NoCommand
    /\ status = "none"
    /\ error = None
    /\ warnings = {}
    /\ http = <<>>
    /\ connects = 0
    /\ sent = <<>>
    /\ records = <<>>
    /\ auth = NoToken
    /\ drains = 0
    /\ reads = 0
    /\ received = 0
    /\ emitted = <<>>
    /\ resp_json = NoFrame
    /\ resp_dict = Unbound
    /\ response = ""
    /\ printed = <<>>
    /\ record \in Records
    /\ tkargs \in TokenInputs
    /\ tk = NoToken
    /\ threads = NoThreads

\* One call of get_auth_token.
IssueToken ==
    /\ tk = NoToken
    /\ tk' = get_auth_token(record, tkargs.login, tkargs.scopes, tkargs.ent_id,
                            tkargs.public_jwk, tkargs.exp_delta, tkargs.now)
    /\ UNCHANGED <<regVars, pc, cmdVars, drainVars, record, tkargs, threads>>

NextToken == IssueToken

SpecToken == InitToken /\ [][NextToken]_vars

(***************************************************************************)
(* `user connect` and `user disconnect` run by two threads at once          *)
(***************************************************************************)

\* Each step is one access to params.ws_connections or to the transport;
\* the code holds no lock across them, so the steps of the threads
\* interleave.  The root key is resolved, the token built, no minion named.

\* remote.py:397-399 and 339-341: ws = ws_connections.get(user_login) and
\* the test on it.
ThreadLookup(t) ==
    /\ threads[t].pc = "idle"
    /\ \E act \in {"connect", "disconnect"}, login \in Logins :
         LET ws == ws_connections[login]
         IN threads' = [threads EXCEPT ![t] =
              IF act = "connect"
              THEN IF NoSession(ws)
                   THEN Thread("connect", act, login, ws, None)
                   ELSE Thread("idle", act, login, ws, "already connected")
              ELSE IF HasSession(ws)
                   THEN Thread("pop", act, login, ws, None)
                   ELSE Thread("idle", act, login, ws, "no connection")]
    /\ UNCHANGED <<regVars, pc, cmdVars, drainVars, tokVars>>

\* remote.py:401-402: ws = websocket.WebSocket(); ws.connect(...).
ThreadConnect(t) ==
    /\ threads[t].pc = "connect"
    /\ nconn < MaxHandles
    /\ \E connectOk \in BOOLEAN :
         IF connectOk
         THEN /\ nconn' = nconn + 1
              /\ threads' = [threads EXCEPT ![t] =
                   Thread("insert", "connect", threads[t].login, nconn + 1, None)]
         ELSE /\ nconn' = nconn
              /\ threads' = [threads EXCEPT ![t] =
                   Thread("idle", "connect", threads[t].login, 0, "ConnectError")]
    /\ UNCHANGED <<ws_connections, closed, broken, pc, cmdVars, drainVars, tokVars>>

\* remote.py:403-405: ws_connections[user_login] = ws.
ThreadInsert(t) ==
    /\ threads[t].pc = "insert"
    /\ ws_connections' = Register(ws_connections, threads[t].login, threads[t].ws)
    /\ threads' = [threads EXCEPT ![t] =
         Thread("idle", "connect", threads[t].login, threads[t].ws, "connected")]
    /\ UNCHANGED <<nconn, closed, broken, pc, cmdVars, drainVars, tokVars>>

\* remote.py:343-344: ws_connections.pop(user_login).close(timeout=3); pop
\* raises KeyError when another thread removed the entry meanwhile, and
\* closes whatever connection the entry holds by now.
ThreadPop(t) ==
    /\ threads[t].pc = "pop"
    /\ LET login == threads[t].login
           ws == ws_connections[login]
       IN IF ws = 0
          THEN /\ threads' = [threads EXCEPT ![t] =
                    Thread("idle", "disconnect", login, threads[t].ws, "KeyError")]
               /\ UNCHANGED <<ws_connections, closed>>
          ELSE /\ ws_connections' = Pop(ws_connections, login)
               /\ closed' = closed \cup {ws}
               /\ threads' = [threads EXCEPT ![t] =
                    Thread("idle", "disconnect", login, threads[t].ws, "disconnected")]
    /\ UNCHANGED <<nconn, broken, pc, cmdVars, drainVars, tokVars>>

NextConc ==
    \/ \E t \in Threads : ThreadLookup(t)
    \/ \E t \in Threads : ThreadConnect(t)
    \/ \E t \in Threads : ThreadInsert(t)
    \/ \E t \in Threads : ThreadPop(t)

SpecConc == Init /\ [][NextConc]_vars

(***************************************************************************)
(* Properties                                                              *)
(***************************************************************************)

\* A step that runs execute from the prompt; kwargs' is the invocation.
Invoked == pc = "idle" /\ pc' # "idle"

Obj(kw) == RemoteObj(kw.command)
Act(kw) == RemoteAction(kw.command)

\* Every transport connection that was opened and not closed is the
\* registered session of exactly one login, and no entry of the table is a
\* closed connection.
OneSessionPerLogin ==
    /\ \A h \in 1..nconn :
         h \notin closed => Cardinality({ l \in Logins : ws_connections[l] = h }) = 1
    /\ \A l \in Logins :
         ws_connections[l] # 0 => ws_connections[l] \in (1..nconn) \ closed

\* `user connect` for a login that has a session.
DuplicateConnectStep ==
    (/\ Invoked
     /\ kwargs'.v3
     /\ kwargs'.command = <<"user", "connect">>
     /\ ws_connections[kwargs'.user_login] # 0)
    => /\ connects' = 0
       /\ nconn' = nconn
       /\ ws_connections' = ws_connections
       /\ closed' = closed
       /\ (kwargs'.root_key # 0 /\ auth'.error = None)
            => /\ status' = "returned"
               /\ "already connected" \in warnings'

\* C1: the connection table holds at most one session per login (no open
\* connection is left outside the table, none is shared); `user connect` for
\* a login that has a session opens no connection and leaves the table and
\* the registered handle as they were, and, once its token is built, ends
\* with the already-connected warning.
C1_AtMostOneSessionPerLogin == []OneSessionPerLogin /\ [][DuplicateConnectStep]_vars

\* C1 witness: a `user connect` for a connected login was turned away.
C1_Witness ==
    /\ pc = "done"
    /\ kwargs.command = <<"user", "connect">>
    /\ ws_connections[kwargs.user_login] # 0
    /\ connects = 0
    /\ "already connected" \in warnings

\* C2: once a command is over, no session on which a read was aborted or a
\* send failed is still in the connection table.
C2_TransportErrorInvalidatesSession ==
    pc = "done" => \A l \in Logins : ws_connections[l] \notin broken

\* The preconditions of the dispatch table, for the invocation kw and the
\* connection table conns it finds.
MissingPrecondition(kw, conns) ==
    \/ Obj(kw) = "enterprise" /\ Act(kw) \in {"add", "check"} /\ kw.root_key = 0
    \/ Obj(kw) = "user" /\ Act(kw) \in {"add", "check", "connect"} /\ kw.root_key = 0
    \/ Obj(kw) = "minion" /\ Act(kw) = "add" /\ (kw.root_key = 0 \/ ~kw.folder)
    \/ Obj(kw) = "minion" /\ kw.minion_id = None
    \/ Obj(kw) = "minion" /\ Act(kw) \in {"cmd", "exit", "ping"} /\ conns[kw.user_login] = 0
    \/ Obj(kw) = "user" /\ Act(kw) \in {"disconnect", "list", "receive"}
         /\ conns[kw.user_login] = 0

\* C3: an invocation whose precondition is missing warns and returns; the
\* connection table and the connections are as before, and there was no HTTP
\* call, no websocket connect, send or receive and no record creation.
C3_MissingPreconditionShortCircuits ==
    [][ (/\ Invoked
         /\ kwargs'.v3
         /\ Len(kwargs'.command) > 0
         /\ MissingPrecondition(kwargs', ws_connections))
        => /\ pc' = "done"
           /\ status' = "returned"
           /\ warnings' # {}
           /\ <<ws_connections, nconn, closed, broken>>' = <<ws_connections, nconn, closed, broken>>
           /\ http' = <<>>
           /\ connects' = 0
           /\ sent' = <<>>
           /\ records' = <<>>
           /\ drains' = 0
           /\ reads' = 0 ]_vars

\* C3 witness: a minion command for a user without a session has returned,
\* and so has a `user connect` without a root key.
C3_Witness ==
    /\ pc = "done"
    /\ kwargs.v3
    /\ Len(kwargs.command) > 0
    /\ MissingPrecondition(kwargs, ws_connections)
    /\ Obj(kwargs) = "minion"
    /\ Act(kwargs) = "exit"
    /\ kwargs.minion_id # None
    /\ nconn > 0
    /\ "no connection" \in warnings

\* C4: within a drain every frame received has put out exactly one
\* emission, and the emissions are in the order of the frames.
C4_OneEmissionPerFrameInOrder ==
    /\ Len(emitted) = received
    /\ \A i \in 1..Len(emitted) : emitted[i].frame = i

\* The last frame received is a log rotation.
RotationReceived == received > 0 /\ resp_json.kind = "map" /\ resp_json.msg = "rotate"

\* C5: a frame whose message has rotate_log true puts out a log-rotation
\* signal and nothing else, and the drain ends normally without another read.
C5_RotationSignalThenStop ==
    RotationReceived
    => /\ Len(emitted) = received
       /\ emitted[received].kind = "rotation"
       /\ pc # "drain"
       /\ status # "raised"
       /\ reads = received

\* A step of the drain that receives an invalid frame.
InvalidFrameStep ==
    pc = "drain" /\ received' = received + 1 /\ resp_json'.kind \in InvalidKinds

WarningEmitted == emitted' = Append(emitted, [frame |-> received', kind |-> "warning"])

\* C6 as stated, for the frames the drain handles without an exception: an
\* invalid frame is warned about and ends the drain, be it the first frame or
\* a later one.
C6_InvalidFrameStopsDrain ==
    [][ (InvalidFrameStep /\ status' # "raised")
        => WarningEmitted /\ pc' = "drained" ]_vars

\* C6 as amended: an invalid frame ends the drain only when it is JSON
\* null; an empty mapping, a list, a number or a string is warned about and
\* the drain reads on; so does a frame that fails to parse after an earlier
\* frame, while one that fails to parse as the first frame is not warned
\* about and ends the drain with an exception.
C6_InvalidFrameStopsOnlyOnNull ==
    [][ InvalidFrameStep
        => IF resp_json'.kind = "null"
           THEN WarningEmitted /\ pc' = "drained"
           ELSE IF resp_json'.kind = "nonjson" /\ received = 0
           THEN emitted' = emitted /\ pc' = "done" /\ status' = "raised"
           ELSE WarningEmitted /\ pc' = "drain" /\ status' = status ]_vars

\* C6 witness: an empty mapping came as the second frame of a drain, was
\* warned about, and the drain is still reading.
C6_Witness ==
    /\ pc = "drain"
    /\ received = 2
    /\ resp_json.kind = "emptymap"
    /\ Len(emitted) = 2
    /\ emitted[2].kind = "warning"

\* C7: an invalid frame is warned about and skipped: the loop reads on, no
\* exception leaves the drain, and the session stays in the table.
C7_InvalidFrameSkipped ==
    [][ InvalidFrameStep
        => /\ WarningEmitted
           /\ pc' = "drain"
           /\ status' # "raised"
           /\ ws_connections'[kwargs.user_login] = ws_connections[kwargs.user_login]
           /\ ws_connections'[kwargs.user_login] # 0 ]_vars

\* Exceptions of the transport and of the drain's handling of a frame.
DrainFailures == {"SendError", "WebSocketError", "TypeError", "UnboundLocalError"}

\* C8: `minion cmd`, `minion exit` and `minion ping` on an existing session
\* send one `send` envelope with the command's tokens to the minion, drain
\* twice when the first token is exit and once otherwise, and return, for
\* every token list (when the transport and the frames give no error).
C8_MinionCmdSendsOnceAndDrains ==
    (/\ pc = "done"
     /\ kwargs.v3
     /\ Len(kwargs.command) > 0
     /\ Obj(kwargs) = "minion"
     /\ Act(kwargs) \in {"cmd", "exit", "ping"}
     /\ kwargs.minion_id # None
     /\ ws_connections[kwargs.user_login] # 0
     /\ error \notin DrainFailures)
    => LET cmd == CmdTokens(kwargs.command)
       IN /\ sent = << SendEnvelope(kwargs.minion_id, cmd) >>
          /\ drains = (IF cmd # <<>> /\ cmd[1] = "exit" THEN 2 ELSE 1)
          /\ status = "returned"

\* C9: an entry enters the table only by a `user connect` whose transport
\* connect succeeded, for a login that had none, and is a new connection; a
\* failed connect changes nothing; `user disconnect` of a registered login
\* removes the entry and closes its connection in one step; `user
\* disconnect` of an absent login warns and changes nothing.
C9_SessionLifecycle ==
    [][ /\ \A l \in Logins :
             (ws_connections'[l] # ws_connections[l] /\ ws_connections'[l] # 0)
             => /\ Invoked
                /\ kwargs'.command = <<"user", "connect">>
                /\ kwargs'.user_login = l
                /\ ws_connections[l] = 0
                /\ connects' = 1
                /\ error' # "ConnectError"
                /\ nconn' = nconn + 1
                /\ ws_connections'[l] = nconn'
                /\ nconn' \notin closed'
        /\ (Invoked /\ error' = "ConnectError")
             => <<ws_connections, nconn, closed, broken>>' = <<ws_connections, nconn, closed, broken>>
        /\ (Invoked /\ kwargs'.v3 /\ kwargs'.command = <<"user", "connect">>
              /\ ws_connections[kwargs'.user_login] = 0
              /\ connects' = 1 /\ error' # "ConnectError")
             => ws_connections'[kwargs'.user_login] = nconn + 1
        /\ (Invoked /\ kwargs'.v3 /\ kwargs'.command = <<"user", "disconnect">>)
             => IF ws_connections[kwargs'.user_login] # 0
                THEN /\ ws_connections' =
                          [ws_connections EXCEPT ![kwargs'.user_login] = 0]
                     /\ closed' = closed \cup {ws_connections[kwargs'.user_login]}
                     /\ pc' = "done"
                     /\ status' = "returned"
                ELSE /\ "no connection" \in warnings'
                     /\ status' = "returned"
                     /\ <<ws_connections, nconn, closed, broken>>'
                          = <<ws_connections, nconn, closed, broken>> ]_vars

\* C9 witness: after a disconnect closed the first connection, a `user
\* connect` registered a second one.
C9_Witness ==
    /\ pc = "done"
    /\ kwargs.command = <<"user", "connect">>
    /\ closed = {1}
    /\ nconn = 2
    /\ ws_connections[kwargs.user_login] = 2
    /\ \A l \in Logins : l # kwargs.user_login => ws_connections[l] = 0

\* C10: once the token is built or has failed, every url-kind key (api, iss)
\* that no field of the record names holds the record's URL.
C10_UrlKindFallsBack ==
    tk # NoToken
    => \A i \in 1..Len(JWK_FIELDS) :
         (/\ IsUrlKind(JWK_FIELDS[i].v)
          /\ \A j \in 1..Len(record.custom_fields) :
               record.custom_fields[j].name # JWK_FIELDS[i].v)
         => /\ JWK_FIELDS[i].k \in DOMAIN tk.token_vars
            /\ tk.token_vars[JWK_FIELDS[i].k] = record.login_url

\* Every thread is between invocations.
Quiescent == \A t \in Threads : threads[t].pc = "idle"

\* C11: when invocations of `user connect` and `user disconnect` interleave,
\* the table stays as a sequence of whole invocations would leave it: once
\* every thread is done, each connection that was opened and not closed is
\* the registered session of one login (none was overwritten, none is open
\* but unregistered).
C11_RegistryMutationsAtomic == Quiescent => OneSessionPerLogin

\* C12 as stated: no record given to the record store holds an issued token.
C12_TokenNeverPersisted ==
    \A i \in 1..Len(records) : records[i].token = EmptyVars

\* C12 as amended: the one token written to the record store is the
\* minion-scope token of `minion add`, in the record of the minion it was
\* issued for by this very invocation; no other command writes a record, and
\* back at the prompt no token is kept.
C12_TokenPersistedOnlyByMinionAdd ==
    /\ records # <<>>
         => /\ kwargs.command = <<"minion", "add">>
            /\ Len(records) = 1
            /\ auth.error = None
            /\ records[1].title = kwargs.minion_id
            /\ records[1].token = auth.payload
            /\ auth.payload["login"] = kwargs.minion_id
            /\ auth.payload["scope"] = "minion"
    /\ (pc = "done" /\ status = "returned" /\ kwargs.command = <<"minion", "add">>
          /\ auth.error = None)
         => records # <<>>
    /\ pc = "idle" => auth = NoToken

\* C12 witness: `minion add` returned after writing the minion's record with
\* its token.
C12_Witness ==
    /\ pc = "done"
    /\ status = "returned"
    /\ kwargs.command = <<"minion", "add">>
    /\ Len(records) = 1
    /\ records[1].token = auth.payload
    /\ auth.error = None

\* C13: an invocation whose token construction fails (a payload or header
\* key unresolved, the key pair missing or not signable) ends with that
\* exception and has made no HTTP call, no websocket connect, send or read,
\* created no record, and left the connection table and the connections as
\* they were.
C13_TokenFailureHasNoEffects ==
    [][ (Invoked /\ kwargs'.root_key # 0 /\ auth'.error \notin {None, "unissued"})
        => /\ pc' = "done"
           /\ status' = "raised"
           /\ error' = auth'.error
           /\ http' = <<>>
           /\ connects' = 0
           /\ sent' = <<>>
           /\ records' = <<>>
           /\ drains' = 0
           /\ reads' = 0
           /\ <<ws_connections, nconn, closed, broken>>' = <<ws_connections, nconn, closed, broken>> ]_vars

\* C13 witness: a `user connect` named a minion and a root key whose private
\* key does not parse, and ended with the signing error.
C13_Witness ==
    /\ pc = "done"
    /\ kwargs.command = <<"user", "connect">>
    /\ kwargs.minion_id # None
    /\ kwargs.root_key # 0
    /\ auth.error = "ValueError:pem"
    /\ status = "raised"
    /\ connects = 0
    /\ sent = <<>>

\* `user connect` got past its root key test and built its token.
ConnectReady(kw, tok) ==
    /\ kw.v3
    /\ kw.command = <<"user", "connect">>
    /\ kw.root_key # 0
    /\ tok.error = None

\* The envelope e is the ping of remote.py:407-409 for the minion m.
IsPing(e, m) ==
    /\ e.action = "send"
    /\ e.type = "command"
    /\ e.to = m
    /\ e.message = <<"ping">>

\* C14 as stated: a `user connect` that named a minion and whose transport
\* connect did not fail has sent the ping, be its session new or the one the
\* login had; one that named none has sent nothing.
C14_ConnectPingsNewAndReused ==
    (/\ pc \in {"drain", "drained", "done"}
     /\ ConnectReady(kwargs, auth)
     /\ error # "ConnectError")
    => IF kwargs.minion_id # None
       THEN Len(sent) = 1 /\ IsPing(sent[1], kwargs.minion_id)
       ELSE sent = <<>>

\* C14 as amended: `user connect` for a login without a session connects,
\* registers the session and, when a minion is named, sends it the ping and
\* starts the one drain; without a minion it sends nothing.  For a login
\* that has a session it sends nothing and drains nothing, minion or not,
\* and warns that the user is connected.
C14_ConnectPingsNewSessionOnly ==
    /\ [](kwargs.command = <<"user", "connect">> => drains <= 1 /\ Len(sent) <= 1)
    /\ [][ (Invoked /\ ConnectReady(kwargs', auth'))
           => IF ws_connections[kwargs'.user_login] = 0
              THEN /\ connects' = 1
                   /\ error' # "ConnectError"
                        => /\ ws_connections'[kwargs'.user_login] = nconn'
                           /\ IF kwargs'.minion_id # None
                              THEN /\ Len(sent') = 1
                                   /\ IsPing(sent'[1], kwargs'.minion_id)
                                   /\ error' # "SendError"
                                        => pc' = "drain" /\ drains' = 1
                              ELSE sent' = <<>> /\ drains' = 0 /\ pc' = "done"
              ELSE /\ sent' = <<>>
                   /\ connects' = 0
                   /\ drains' = 0
                   /\ pc' = "done"
                   /\ "already connected" \in warnings' ]_vars

\* C14 witness: a `user connect` that named a minion opened a session, sent
\* the ping, drained once and returned.
C14_Witness ==
    /\ pc = "done"
    /\ status = "returned"
    /\ ConnectReady(kwargs, auth)
    /\ kwargs.minion_id # None
    /\ connects = 1
    /\ ws_connections[kwargs.user_login] = nconn
    /\ Len(sent) = 1
    /\ IsPing(sent[1], kwargs.minion_id)
    /\ drains = 1
    /\ reads > 0

\* C15 as stated: the exp claim of every token an invocation issued is the
\* issuance time plus the expiry override given to the command.
C15_ExpUsesSuppliedDelta ==
    auth.error = None
    => \E now \in Clock : auth.payload["exp"] = now + kwargs.exp_delta

\* C15 as amended: the exp claim is the issuance time plus the expiry
\* override for the token of `minion add`, and plus JWT_EXP_DELTA for the
\* token of every other action, whatever override was given.
C15_ExpUsesDeltaForMinionAddOnly ==
    auth.error = None
    => \E now \in Clock :
         auth.payload["exp"] =
           now + (IF kwargs.command = <<"minion", "add">>
                  THEN kwargs.exp_delta ELSE JWT_EXP_DELTA)

\* C15 witness: `minion add` with an override other than the default issued
\* a token that expires after it.
C15_Witness ==
    /\ pc = "done"
    /\ kwargs.command = <<"minion", "add">>
    /\ kwargs.exp_delta # JWT_EXP_DELTA
    /\ auth.error = None
    /\ \E now \in Clock : auth.payload["exp"] = now + kwargs.exp_delta

\* The token construction was given a numeric enterprise id and did not fail
\* on the record's fields.
EntIdSupplied ==
    /\ tk # NoToken
    /\ tkargs.ent_id.given
    /\ tk.error \in {None, "OverflowError"}

\* C16: for every numeric enterprise id given to the token construction -
\* 0 and ids of more than four bytes included - the token is built and its
\* claims hold ent-id, the digest of the id's four-byte big-endian encoding,
\* not the id itself.
C16_EntIdAlwaysHashed ==
    EntIdSupplied
    => /\ tk.error = None
       /\ "ent-id" \in DOMAIN tk.payload
       /\ tk.payload["ent-id"] = Sha256(ToBytes4(tkargs.ent_id.digits))
       /\ tk.payload["ent-id"] # tkargs.ent_id.digits

\* The record names every key of JWK_FIELDS in a custom field.
SuppliesAll(r) ==
    \A n \in FieldNames : \E j \in 1..Len(r.custom_fields) : r.custom_fields[j].name = n

\* No two custom fields of the record have the same name.
NamesOnce(r) ==
    \A a, b \in 1..Len(r.custom_fields) :
        a # b => r.custom_fields[a].name # r.custom_fields[b].name

\* The record with its fields i and j exchanged.
Swap(r, i, j) ==
    Rec([k \in 1..Len(r.custom_fields) |->
           IF k = i THEN r.custom_fields[j]
           ELSE IF k = j THEN r.custom_fields[i]
           ELSE r.custom_fields[k]])

\* The token built from `record` is the token built, from the same
\* arguments, from the record with any two of its fields exchanged.  Every
\* ordering of a record is reached by such exchanges.
SameForEveryExchange ==
    \A i, j \in 1..Len(record.custom_fields) :
        get_auth_token(Swap(record, i, j), tkargs.login, tkargs.scopes, tkargs.ent_id,
                       tkargs.public_jwk, tkargs.exp_delta, tkargs.now) = tk

\* C17 as stated: for a record that names all six keys, the key material,
\* the header and the claims are the same for every ordering of its fields.
C17_FieldOrderIndependent ==
    (tk # NoToken /\ SuppliesAll(record)) => SameForEveryExchange

\* C17 as amended: the same, for a record that names each of the six keys
\* in exactly one field.
C17_FieldOrderIndependentWhenNamedOnce ==
    (tk # NoToken /\ SuppliesAll(record) /\ NamesOnce(record)) => SameForEveryExchange

\* C17 witness: a token was built from a record that names each key once,
\* its fields in the reverse of the order of JWK_FIELDS.
C17_Witness ==
    /\ tk # NoToken
    /\ tk.error = None
    /\ SuppliesAll(record)
    /\ NamesOnce(record)
    /\ \A i \in 1..Len(JWK_FIELDS) :
         record.custom_fields[i].name = JWK_FIELDS[Len(JWK_FIELDS) + 1 - i].v

\* The four keys the rendering takes out of a frame.
KnownKeys == {"message", "members", "command", "from"}

\* The last frame received is a valid frame that is no log rotation, and
\* its rendering was printed.
Rendered ==
    /\ received > 0
    /\ resp_json.kind = "map"
    /\ resp_json.msg # "rotate"
    /\ Len(emitted) > 0
    /\ emitted[Len(emitted)] = [frame |-> received, kind |-> "rendering"]

\* The leftover lines of the rendering printed last.
LeftoverLines == { i \in 1..Len(printed) : printed[i].tag = "json" }

\* C18: the rendering of a valid frame that is no log rotation ends with a
\* JSON line exactly when the frame has keys other than message, members,
\* command and from, and that line holds exactly those other keys - `from`
\* is not among them even when the frame has no message.
C18_LeftoverLineExcludesKnownKeys ==
    Rendered
    => LET rest == resp_json.keys \ KnownKeys
       IN IF rest = {}
          THEN LeftoverLines = {}
          ELSE /\ LeftoverLines = {Len(printed)}
               /\ printed[Len(printed)].keys = rest

\* A step of the drain that receives a renderable frame: a non-empty
\* mapping whose message is no log rotation.
RenderableStep ==
    /\ pc = "drain"
    /\ received' = received + 1
    /\ resp_json'.kind = "map"
    /\ resp_json'.msg # "rotate"

\* A step of the drain whose read brought no frame and no exception: the
\* read timed out (or the connection aborted it).
TimeoutStep ==
    /\ pc = "drain"
    /\ reads' = reads + 1
    /\ received' = received
    /\ status' # "raised"

\* Every frame of the current drain so far was rendered.
AllRendered ==
    /\ Len(emitted) = received
    /\ \A i \in 1..Len(emitted) : emitted[i] = [frame |-> i, kind |-> "rendering"]

C20_NoConnectSocketEnvelope ==
    /\ \A i \in 1..Len(sent) :
         \/ sent[i].action = "send" /\ sent[i].type = "command"
         \/ sent[i].action = "list"
    /\ (pc = "done" /\ kwargs.command = <<"user", "connectSocket">>)
         => sent = <<>> /\ warnings = {} /\ status = "returned"

\* C20 witness: `user connectSocket` with a minion named returned for a user
\* whose session is registered.
C20_Witness ==
    /\ pc = "done"
    /\ kwargs.command = <<"user", "connectSocket">>
    /\ kwargs.minion_id # None
    /\ ws_connections[kwargs.user_login] # 0
    /\ ws_connections[kwargs.user_login] \notin closed \cup broken
    /\ sent = <<>>

====
